---- MODULE Spec2Model ----
(***************************************************************************)
(* Model of radest (src/src/radest.py) and of its driver radlist.py:       *)
(* day-of-year, Julian day, ASCE extraterrestrial radiation and its        *)
(* reduction to ground level.                                              *)
(*                                                                         *)
(* Representation.                                                         *)
(*   - A numpy.datetime64 time stamp of one-second resolution is the pair  *)
(*     [day, sec]: whole days since 1970-01-01 and second of that day      *)
(*     (numpy holds the single 64 bit count day*86400 + sec).              *)
(*   - A float64 is a fixed-point integer, Scale units to one; degrees of  *)
(*     longitude, hours, radians and W/m2 all use that scale. NaN is one   *)
(*     reserved value, and every operation on floats treats it as IEEE 754 *)
(*     does: arithmetic propagates it, every ordered comparison with it is *)
(*     false.                                                              *)
(*   - A numpy array is [dtype, data]; the dtype matters because the       *)
(*     arithmetic between arrays is resolved on it even when both are      *)
(*     empty.                                                              *)
(***************************************************************************)
EXTENDS Integers, Sequences, FiniteSets, TLC

VARIABLES
    time_stamp,         \* the array of time stamps handed to the functions
    averaging_period,   \* seconds
    lat,                \* degrees, fixed point
    lon,                \* degrees, fixed point
    zone,               \* hours (integer)
    pc,                 \* position of the calling program
    doy_out,            \* result of DoY(time_stamp)
    jd_out,             \* result of calcJD(time_stamp)
    er,                 \* outcome of ExtraterrestrialRadiation(...)
    z,                  \* height handed to GlobalRadiation
    rg                  \* result of GlobalRadiation(ra, z)

vars == <<time_stamp, averaging_period, lat, lon, zone, pc, doy_out, jd_out, er, z, rg>>

-----------------------------------------------------------------------------
(* Bounds of the model.                                                    *)

\* longest array of time stamps a caller builds
MaxN == 2
\* longest run of consecutive days handed to the calendar functions
MaxDays == 3

-----------------------------------------------------------------------------
(* float64 as fixed point.                                                 *)

Scale == 10^4
NaN == -(2^30)
IsNaN(x) == x = NaN

Abs(x) == IF x < 0 THEN -x ELSE x
Sgn(x) == IF x < 0 THEN -1 ELSE IF x > 0 THEN 1 ELSE 0

\* a*b/c rounded toward zero, without forming a*b (|b| * c stays below 2^31)
MulDiv(a, b, c) ==
    LET q == Abs(a) \div c
        r == Abs(a) % c
    IN  Sgn(a) * Sgn(b) * (q * Abs(b) + (r * Abs(b)) \div c)

\* float64 *, +, -, unary -, /
FMul(a, b) == IF IsNaN(a) \/ IsNaN(b) THEN NaN ELSE MulDiv(a, b, Scale)
FAdd(a, b) == IF IsNaN(a) \/ IsNaN(b) THEN NaN ELSE a + b
FSub(a, b) == IF IsNaN(a) \/ IsNaN(b) THEN NaN ELSE a - b
FNeg(a) == IF IsNaN(a) THEN NaN ELSE -a
FDiv(a, b) == IF IsNaN(a) \/ IsNaN(b) THEN NaN ELSE Sgn(a) * Sgn(b) * ((Abs(a) * Scale) \div Abs(b))

\* float64 <, >: false as soon as one side is NaN
FLt(a, b) == ~IsNaN(a) /\ ~IsNaN(b) /\ a < b
FGt(a, b) == ~IsNaN(a) /\ ~IsNaN(b) /\ a > b
FLe(a, b) == ~IsNaN(a) /\ ~IsNaN(b) /\ a <= b
FGe(a, b) == ~IsNaN(a) /\ ~IsNaN(b) /\ a >= b

\* an integer as a float64
FromInt(n) == n * Scale

\* np.pi
PI == 31416
HalfPI == PI \div 2

QuarterPI == PI \div 4

\* sine of an angle of [-pi/4, pi/4]: Taylor series to x^9
SinCore(x) ==
    LET x2 == MulDiv(x, x, Scale)
        t4 == Scale - x2 \div 72
        t3 == Scale - MulDiv(x2, t4, Scale) \div 42
        t2 == Scale - MulDiv(x2, t3, Scale) \div 20
        t1 == Scale - MulDiv(x2, t2, Scale) \div 6
    IN  MulDiv(x, t1, Scale)

\* cosine of an angle of [-pi/4, pi/4]: Taylor series to x^8
CosCore(x) ==
    LET x2 == MulDiv(x, x, Scale)
        t4 == Scale - x2 \div 56
        t3 == Scale - MulDiv(x2, t4, Scale) \div 30
        t2 == Scale - MulDiv(x2, t3, Scale) \div 12
    IN  Scale - MulDiv(x2, t2, Scale) \div 2

\* np.sin: the angle is reduced to [-pi, pi), folded to [-pi/2, pi/2], and the
\* series of the sine or of the cosine is used, whichever has the small argument
Sin(x) ==
    IF IsNaN(x) THEN NaN
    ELSE LET m == ((x + PI) % (2 * PI)) - PI
             r == IF m > HalfPI THEN PI - m
                  ELSE IF m < -HalfPI THEN -PI - m
                  ELSE m
         IN  IF r > QuarterPI THEN CosCore(HalfPI - r)
             ELSE IF r < -QuarterPI THEN -CosCore(HalfPI + r)
             ELSE SinCore(r)

\* np.cos
Cos(x) == IF IsNaN(x) THEN NaN ELSE Sin(x + HalfPI)

\* np.tan: at pi/2 the float64 tangent is a huge finite number, not an infinity
TanHuge == 10^8
Tan(x) ==
    IF IsNaN(x) THEN NaN
    ELSE IF Cos(x) = 0 THEN Sgn(Sin(x)) * TanHuge
    ELSE FDiv(Sin(x), Cos(x))

\* the angle of [lo, hi] within [0, pi] whose cosine is x, by bisection
RECURSIVE ArcCosBisect(_, _, _)
ArcCosBisect(x, lo, hi) ==
    IF hi - lo <= 1 THEN (IF Abs(Cos(lo) - x) <= Abs(Cos(hi) - x) THEN lo ELSE hi)
    ELSE LET mid == (lo + hi) \div 2
         IN  IF Cos(mid) > x THEN ArcCosBisect(x, mid, hi)
             ELSE ArcCosBisect(x, lo, mid)

\* np.arccos: NaN outside [-1, 1] (numpy warns and goes on)
ArcCos(x) ==
    IF IsNaN(x) \/ x < -Scale \/ x > Scale THEN NaN
    ELSE IF x = Scale THEN 0
    ELSE IF x = -Scale THEN PI
    ELSE ArcCosBisect(x, 0, PI)

-----------------------------------------------------------------------------
(* numpy.datetime64 and the proleptic Gregorian calendar behind it.        *)

SecondsPerDay == 24 * 3600
YearRange == 1890 .. 2110

IsLeap(y) == (y % 4 = 0 /\ y % 100 # 0) \/ y % 400 = 0
LeapsThrough(y) == y \div 4 - y \div 100 + y \div 400
\* days from 1970-01-01 to January 1 of year y
DaysBeforeYear(y) == 365 * (y - 1970) + LeapsThrough(y - 1) - LeapsThrough(1969)
DaysInMonth(y, m) ==
    IF m = 2 THEN (IF IsLeap(y) THEN 29 ELSE 28)
    ELSE IF m \in {4, 6, 9, 11} THEN 30 ELSE 31
RECURSIVE DaysBeforeMonth(_, _)
DaysBeforeMonth(y, m) == IF m = 1 THEN 0 ELSE DaysBeforeMonth(y, m - 1) + DaysInMonth(y, m - 1)

\* np.datetime64('y-m-d') + seconds: a time stamp
Date(y, m, d) == DaysBeforeYear(y) + DaysBeforeMonth(y, m) + d - 1
TS(day, sec) == [day |-> day, sec |-> sec]
\* time_stamp + np.timedelta64(s, 's')
AddSeconds(t, s) ==
    [day |-> t.day + (t.sec + s) \div SecondsPerDay, sec |-> (t.sec + s) % SecondsPerDay]

\* .astype('datetime64[Y]'): the calendar year holding the day
YearOf(day) == CHOOSE y \in YearRange : DaysBeforeYear(y) <= day /\ day < DaysBeforeYear(y + 1)
\* .astype('datetime64[M]'): the month of that year holding the day
MonthOf(day) ==
    LET y == YearOf(day)
    IN  CHOOSE m \in 1 .. 12 :
            /\ DaysBeforeYear(y) + DaysBeforeMonth(y, m) <= day
            /\ day < DaysBeforeYear(y) + DaysBeforeMonth(y, m) + DaysInMonth(y, m)
\* .astype('datetime64[M]').astype(int): months since 1970-01
MonthIndex(day) == (YearOf(day) - 1970) * 12 + (MonthOf(day) - 1)
MonthStart(day) == DaysBeforeYear(YearOf(day)) + DaysBeforeMonth(YearOf(day), MonthOf(day))

\* float64 -> int as .astype(int) does it: toward zero. h counts halves.
TruncHalves(h) == Sgn(h) * (Abs(h) \div 2)

-----------------------------------------------------------------------------
(* numpy arrays.                                                           *)

Arr(dtype, data) == [dtype |-> dtype, data |-> data]
\* the array of f(1), ..., f(n)
RECURSIVE Tabulate(_, _)
Tabulate(f(_), n) == IF n = 0 THEN << >> ELSE Append(Tabulate(f, n - 1), f(n))
Map1(f(_), s) == Tabulate(LAMBDA i : f(s[i]), Len(s))

\* np.array([...]) of time stamps: an empty list gives a float64 array
ArrayOfTimes(s) == Arr(IF Len(s) = 0 THEN "float64" ELSE "datetime64", s)

-----------------------------------------------------------------------------
(* DoY and calcJD.                                                         *)

\* DoY counting the days from 0
DoY1ZeroBased(t) ==
    LET base_time == DaysBeforeYear(YearOf(t.day))
        delta_times == (t.day - base_time) * SecondsPerDay + t.sec
    IN  delta_times \div SecondsPerDay

\* one element of DoY
DoY1(t) ==
    LET base_time == DaysBeforeYear(YearOf(t.day))
        delta_times == (t.day - base_time) * SecondsPerDay + t.sec
    IN  delta_times \div SecondsPerDay + 1

DoY(ts) == Map1(DoY1, ts)

\* calcJD without the move of January and February to months 13 and 14
calcJD1NoShift(t) ==
    LET yy == (YearOf(t.day) - 1970) + 1970
        mm == (MonthIndex(t.day) % 12) + 1
        dd == (((t.day - MonthStart(t.day)) * SecondsPerDay + t.sec) + SecondsPerDay) \div SecondsPerDay
        A  == yy \div 100
        B  == 2 - A + A \div 4
        whole == (36525 * (yy + 4716)) \div 100 + (306001 * (mm + 1)) \div 10000 + dd + B
    IN  TruncHalves(2 * whole - 3049)

\* one element of calcJD
calcJD1(t) ==
    LET yy0 == (YearOf(t.day) - 1970) + 1970
        mm0 == (MonthIndex(t.day) % 12) + 1
        dd  == (((t.day - MonthStart(t.day)) * SecondsPerDay + t.sec) + SecondsPerDay) \div SecondsPerDay
        yy  == IF mm0 <= 2 THEN yy0 - 1 ELSE yy0
        mm  == IF mm0 <= 2 THEN mm0 + 12 ELSE mm0
        A   == yy \div 100
        B   == 2 - A + A \div 4
        whole == (36525 * (yy + 4716)) \div 100 + (306001 * (mm + 1)) \div 10000 + dd + B
    IN  TruncHalves(2 * whole - 3049)

calcJD(ts) == Map1(calcJD1, ts)

-----------------------------------------------------------------------------
(* ExtraterrestrialRadiation.                                              *)

\* np.timedelta64(3600,'s')
Hour == 3600

\* float64 divided by a whole number, toward zero
FDivInt(a, n) == IF IsNaN(a) THEN NaN ELSE Sgn(a) * (Abs(a) \div n)

\* 1.e5 * 49.2/3600, W/m2
SOLAR_CONSTANT == MulDiv(492 * 10^5, Scale \div 10, 3600)

\* the dtype of a - b between arrays: numpy knows datetime64 - datetime64 and
\* refuses datetime64 - float64 and float64 - datetime64 with a TypeError
SubtractDtype(a, b) ==
    IF a = "datetime64" /\ b = "datetime64" THEN "timedelta64" ELSE "TypeError"

\* 0.409 * np.sin(2*np.pi/365 * doy - 1.39)
SolarDeclination(doy) == FMul(4090, Sin(FSub(MulDiv(2 * PI, doy, 365), 13900)))

\* 1.0 + 0.033 * np.cos(2.0*np.pi*doy/365.0)
SunEarthDistance(doy) == FAdd(Scale, FMul(330, Cos(MulDiv(2 * PI, doy, 365))))

\* lines 160-161
SeasonalCorrection(doy) ==
    LET b == MulDiv(2 * PI, doy - 81, 364)
    IN  FSub(FSub(FMul(1645, Sin(2 * b)), FMul(1255, Cos(b))), FMul(250, Sin(b)))

\* -zone * 15.0, brought to [0, 360) by one addition
CentralMeridianLongitude(zn) ==
    LET c == -zn * 15 * Scale
    IN  IF c < 0 THEN c + 360 * Scale ELSE c

\* -lon, brought to [0, 360) by one addition
LocalLongitude(ln) ==
    LET l == -ln
    IN  IF l < 0 THEN l + 360 * Scale ELSE l

\* the difference wrapped by the modulo alone, without the fold of lines 165-173
DeltaLonPlainWrap(central_meridian_longitude, local_longitude) ==
    Abs(central_meridian_longitude - local_longitude) % (360 * Scale)

\* lines 164-173: the longitude difference entering the solar time angle
DeltaLon(central_meridian_longitude, local_longitude) ==
    LET delta_lon == Abs(central_meridian_longitude - local_longitude) % (360 * Scale)
        intermediate == IF delta_lon > 180 * Scale THEN 360 * Scale - delta_lon ELSE delta_lon
        sign == IF (delta_lon > 0 /\ delta_lon <= 180 * Scale)
                   \/ (delta_lon <= -180 * Scale /\ delta_lon >= -360 * Scale)
                THEN 1 ELSE -1
    IN  sign * intermediate

\* np.arccos(-np.tan(lat*np.pi/180.0) * np.tan(solar_declination))
SunsetAngle(la, solar_declination) ==
    ArcCos(FMul(FNeg(Tan(FDivInt(FMul(la, PI), 180))), Tan(solar_declination)))

\* the loop body without lines 189-190 (omega2 is not held below omegaS)
ClipSampleNoUpper2(o1, o2, oS) ==
    LET a1 == IF FLt(o1, FNeg(oS)) THEN FNeg(oS) ELSE o1
        a2 == IF FLt(o2, FNeg(oS)) THEN FNeg(oS) ELSE o2
        b1 == IF FGt(a1, oS) THEN oS ELSE a1
        c1 == IF FGt(b1, a2) THEN a2 ELSE b1
    IN  [omega1 |-> c1, omega2 |-> a2]

\* lines 183-192, the body of the loop for one i
ClipSample(o1, o2, oS) ==
    LET a1 == IF FLt(o1, FNeg(oS)) THEN FNeg(oS) ELSE o1
        a2 == IF FLt(o2, FNeg(oS)) THEN FNeg(oS) ELSE o2
        b1 == IF FGt(a1, oS) THEN oS ELSE a1
        b2 == IF FGt(a2, oS) THEN oS ELSE a2
        c1 == IF FGt(b1, b2) THEN b2 ELSE b1
    IN  [omega1 |-> c1, omega2 |-> b2]

\* lines 195-198 for one sample
RaFormula(la, dr, solar_declination, omega1, omega2) ==
    LET latrad == FDivInt(FMul(la, PI), 180)
        first  == FMul(FMul(FSub(omega2, omega1), Sin(latrad)), Sin(solar_declination))
        second == FMul(FMul(Cos(latrad), Cos(solar_declination)),
                       FSub(Sin(omega2), Sin(omega1)))
        coef   == FMul(FMul(SOLAR_CONSTANT, FDiv(12 * Scale, PI)), dr)
    IN  FMul(coef, FAdd(first, second))

\* the result without the zero limit of line 201
ZeroLimitOff(ra) == ra

\* np.where(ra < 0., 0., ra) for one sample
ZeroLimit(ra) == IF FLt(ra, 0) THEN 0 ELSE ra

\* lines 134-181 for one time stamp: the vector expressions, element by element
Geometry(t, ap, la, ln, zn) ==
    LET doy == DoY1(t)
        solar_declination == SolarDeclination(doy)
        timenow == MulDiv(t.sec, Scale, Hour) - FromInt(zn)
        JD == calcJD1(t)
        dr == SunEarthDistance(doy)
        central_meridian_longitude == CentralMeridianLongitude(zn)
        local_longitude == LocalLongitude(ln)
        t1 == MulDiv(ap, Scale, 3600)
        tmid == timenow + FromInt(zn) + t1 \div 2
        Sc == SeasonalCorrection(doy)
        delta_lon == DeltaLon(central_meridian_longitude, local_longitude)
        omega == FDivInt(FMul(tmid + MulDiv(delta_lon, 6667, 10^5) + Sc - FromInt(12), PI), 12)
        half == FDivInt(FMul(PI, t1), 24)
    IN  [doy |-> doy, JD |-> JD, dr |-> dr, solar_declination |-> solar_declination,
         central_meridian_longitude |-> central_meridian_longitude,
         local_longitude |-> local_longitude, delta_lon |-> delta_lon,
         omega1 |-> omega - half, omega2 |-> omega + half,
         omegaS |-> SunsetAngle(la, solar_declination)]

\* the loop clipping every sample against the first sunset angle of the batch
ClipLoopFirst(omega1, omega2, omegaS) ==
    Tabulate(LAMBDA i : ClipSample(omega1[i], omega2[i], omegaS[1]), Len(omegaS))

\* lines 182-192: for i in range(len(omegaS)), each sample against omegaS[i]
ClipLoop(omega1, omega2, omegaS) ==
    Tabulate(LAMBDA i : ClipSample(omega1[i], omega2[i], omegaS[i]), Len(omegaS))

NoSamples == << >>
Raised(what) == [status |-> what, samples |-> NoSamples, ra |-> << >>]

\* lines 134-181 for the whole array
GeometryAll(ts, ap, la, ln, zn) ==
    Tabulate(LAMBDA i : Geometry(ts[i], ap, la, ln, zn), Len(ts))

\* the arrays omega1, omega2, omegaS as they stand before the loop
Omega1Of(g) == Tabulate(LAMBDA i : g[i].omega1, Len(g))
Omega2Of(g) == Tabulate(LAMBDA i : g[i].omega2, Len(g))
OmegaSOf(g) == Tabulate(LAMBDA i : g[i].omegaS, Len(g))

\* lines 195-201 for the whole array
RaAll(la, g, clipped) ==
    Tabulate(LAMBDA i :
        ZeroLimit(RaFormula(la, g[i].dr, g[i].solar_declination,
                            clipped[i].omega1, clipped[i].omega2)), Len(g))

\* what a call that returns leaves: per sample the angles before the loop
\* (raw1, raw2) and after it (omega1, omega2), and the array ra it returns
Outcome(la, g, clipped) ==
    [status |-> "returned",
     samples |-> Tabulate(LAMBDA i :
        [doy |-> g[i].doy, JD |-> g[i].JD,
         central_meridian_longitude |-> g[i].central_meridian_longitude,
         local_longitude |-> g[i].local_longitude, delta_lon |-> g[i].delta_lon,
         raw1 |-> g[i].omega1, raw2 |-> g[i].omega2, omegaS |-> g[i].omegaS,
         omega1 |-> clipped[i].omega1, omega2 |-> clipped[i].omega2], Len(g)),
     ra |-> RaAll(la, g, clipped)]

Clipped(la, g) == Outcome(la, g, ClipLoop(Omega1Of(g), Omega2Of(g), OmegaSOf(g)))

Returned(ts, ap, la, ln, zn) == Clipped(la, GeometryAll(ts, ap, la, ln, zn))

\* the call: what it raises or returns
ExtraterrestrialRadiation(ts, ap, la, ln, zn) ==
    \* line 65, in DoY: time_stamp - base_time
    IF SubtractDtype(ts.dtype, "datetime64") = "TypeError" THEN Raised("TypeError")
    \* lines 138-140: day_start is np.array of a list, then time_stamp - day_start
    ELSE IF SubtractDtype(ts.dtype, ArrayOfTimes(ts.data).dtype) = "TypeError"
         THEN Raised("TypeError")
    ELSE Returned(ts.data, ap, la, ln, zn)

-----------------------------------------------------------------------------
(* GlobalRadiation.                                                        *)

\* the reduction without its sea level term 0.75
GlobalRadiation1NoBase(ra, height) == FMul(ra, (2 * height) \div 10)

\* ra * (0.75 + 2.0e-5*z) for one sample; z in metres
GlobalRadiation1(ra, height) == FMul(ra, 7500 + (2 * height) \div 10)

GlobalRadiation(ra, height) == Tabulate(LAMBDA i : GlobalRadiation1(ra[i], height), Len(ra))

-----------------------------------------------------------------------------
(* The calling programs: radlist.py builds the array of time stamps and    *)
(* calls ExtraterrestrialRadiation then GlobalRadiation; the tests of      *)
(* radest.py call DoY and calcJD on runs of consecutive days.              *)

Deg(n) == n * Scale
HalfDeg(n) == n * Scale + Scale \div 2

\* first time stamps of the radiation runs
FirstDays == {Date(2019, 1, 1), Date(2019, 3, 8), Date(2019, 6, 21), Date(2019, 7, 1)}
FirstSeconds == {0, 12 * Hour}
Steps == {8 * Hour, 24 * Hour}
AveragingPeriods == {900, 3600}
Latitudes == {Deg(-90), Deg(-67), Deg(0), HalfDeg(45), Deg(80), Deg(90), Deg(100)}
Longitudes == {Deg(-180), Deg(-10), Deg(0), HalfDeg(9), Deg(180)}
Zones == {-12, 0, 1, 13}
Heights == {-40000, -37500, -400, 1900}

\* [first + np.timedelta64(i*delta, 's') for i in range(n)]
TimeSequence(first, delta, n) == Tabulate(LAMBDA i : AddSeconds(first, (i - 1) * delta), n)

\* the arrays a caller can hand over: np.array of a list of n time stamps, and
\* the empty array that was given the datetime64 dtype explicitly
TimeArrays ==
    {ArrayOfTimes(TimeSequence(TS(d, s), delta, n)) :
        d \in FirstDays, s \in FirstSeconds, delta \in Steps, n \in 0 .. MaxN}
    \cup {Arr("datetime64", << >>)}

NoCall == [status |-> "none", samples |-> NoSamples, ra |-> << >>]

Init ==
    /\ time_stamp \in TimeArrays
    /\ averaging_period \in AveragingPeriods
    /\ lat \in Latitudes
    /\ lon \in Longitudes
    /\ zone \in Zones
    /\ pc = "start"
    /\ doy_out = << >>
    /\ jd_out = << >>
    /\ er = NoCall
    /\ z = 0
    /\ rg = << >>

\* radlist.py line 46
EstimateRa ==
    /\ pc = "start"
    /\ er' = ExtraterrestrialRadiation(time_stamp, averaging_period, lat, lon, zone)
    /\ pc' = IF er'.status = "returned" THEN "ra" ELSE "failed"
    /\ UNCHANGED <<time_stamp, averaging_period, lat, lon, zone, doy_out, jd_out, z, rg>>

\* radlist.py line 47
EstimateRg ==
    /\ pc = "ra"
    /\ \E height \in Heights :
        /\ z' = height
        /\ rg' = GlobalRadiation(er.ra, height)
    /\ pc' = "rg"
    /\ UNCHANGED <<time_stamp, averaging_period, lat, lon, zone, doy_out, jd_out, er>>

Next == EstimateRa \/ EstimateRg

Spec == Init /\ [][Next]_vars

-----------------------------------------------------------------------------
(* The calendar functions on runs of consecutive days (tests 1 to 3).      *)

CalendarFirstDays ==
    {Date(2019, 3, 8), Date(2019, 1, 1), Date(2019, 2, 27), Date(2019, 12, 30),
     Date(2020, 2, 27), Date(2020, 12, 30), Date(2000, 2, 27), Date(1999, 12, 30),
     Date(1900, 2, 27), Date(1899, 12, 30), Date(2100, 2, 27), Date(1969, 12, 30),
     Date(2019, 4, 29), Date(2019, 8, 30)}
CalendarSeconds == {0, 12 * Hour, SecondsPerDay - 1}

CalInit ==
    /\ time_stamp \in
        {ArrayOfTimes(TimeSequence(TS(d, s), SecondsPerDay, n)) :
            d \in CalendarFirstDays, s \in CalendarSeconds, n \in 1 .. MaxDays}
    /\ averaging_period = 3600
    /\ lat = 0
    /\ lon = 0
    /\ zone = 0
    /\ pc = "start"
    /\ doy_out = << >>
    /\ jd_out = << >>
    /\ er = NoCall
    /\ z = 0
    /\ rg = << >>

\* radest.py line 251
CallDoY ==
    /\ pc = "start"
    /\ doy_out' = DoY(time_stamp.data)
    /\ pc' = "doy"
    /\ UNCHANGED <<time_stamp, averaging_period, lat, lon, zone, jd_out, er, z, rg>>

\* radest.py line 261
CallCalcJD ==
    /\ pc = "doy"
    /\ jd_out' = calcJD(time_stamp.data)
    /\ pc' = "jd"
    /\ UNCHANGED <<time_stamp, averaging_period, lat, lon, zone, doy_out, er, z, rg>>

CalNext == CallDoY \/ CallCalcJD

SpecCal == CalInit /\ [][CalNext]_vars

-----------------------------------------------------------------------------
(* The longitude sweeps of tests 7 and 8: one noon time stamp of            *)
(* 2019-07-01 at latitude 45, every zone, and sites on, and a tiny angle    *)
(* either side of, every central meridian.                                  *)

\* 0.0008 degrees, the longitude of test 8
TinyAngle == 8
SweepZones == -12 .. 12
SweepLongitudes ==
    {l \in {Deg(15 * k) + e : k \in -12 .. 12, e \in {-TinyAngle, 0, TinyAngle}} :
        l >= Deg(-180) /\ l <= Deg(180)}
    \cup {Deg(-10), Deg(10), HalfDeg(9), Deg(97), Deg(-97)}

LonInit ==
    /\ time_stamp = ArrayOfTimes(<<TS(Date(2019, 7, 1), 12 * Hour)>>)
    /\ averaging_period = 3600
    /\ lat = Deg(45)
    /\ lon \in SweepLongitudes
    /\ zone \in SweepZones
    /\ pc = "start"
    /\ doy_out = << >>
    /\ jd_out = << >>
    /\ er = NoCall
    /\ z = 0
    /\ rg = << >>

\* radest.py lines 307 and 318
LonNext == EstimateRa

SpecLon == LonInit /\ [][LonNext]_vars

-----------------------------------------------------------------------------
(* Properties.                                                             *)

\* the parameters the interface calls valid
ValidSite ==
    /\ lat >= Deg(-90) /\ lat <= Deg(90)
    /\ lon >= Deg(-180) /\ lon <= Deg(180)
    /\ zone >= -12 /\ zone <= 12
    /\ averaging_period > 0

Called == pc \in {"ra", "rg", "failed"}
N == Len(er.samples)

\* C1: for every valid call that returns, every element of the returned array
\* is a defined number (not NaN) and is >= 0, polar day and polar night (where
\* the argument of arccos leaves [-1, 1]) included.
C1_RaDefinedNonNegative ==
    (Called /\ ValidSite /\ er.status = "returned") =>
        \A i \in 1 .. Len(er.ra) : ~IsNaN(er.ra[i]) /\ er.ra[i] >= 0

\* C1 witness: a valid call in polar day (the sunset angle is NaN) that
\* returned a positive sample
C1_Witness ==
    /\ Called /\ ValidSite /\ er.status = "returned"
    /\ \E i \in 1 .. N : IsNaN(er.samples[i].omegaS) /\ er.ra[i] > 0

\* C2 as stated: for every valid call the sunset angle of every sample is a
\* defined value of [0, pi] (the argument of arccos being clamped to [-1, 1]).
C2_SunsetAngleDefined ==
    (Called /\ ValidSite /\ er.status = "returned") =>
        \A i \in 1 .. N :
            /\ ~IsNaN(er.samples[i].omegaS)
            /\ er.samples[i].omegaS >= 0
            /\ er.samples[i].omegaS <= PI

\* C3 as stated: for every valid zone and longitude the delta-longitude lies in
\* (-180, 180] and is congruent modulo 360 to central meridian longitude minus
\* local longitude.
C3_DeltaLonSignedDifference ==
    (Called /\ ValidSite /\ er.status = "returned") =>
        \A i \in 1 .. N :
            LET sm == er.samples[i]
            IN  /\ sm.delta_lon > Deg(-180)
                /\ sm.delta_lon <= Deg(180)
                /\ (sm.delta_lon - (sm.central_meridian_longitude - sm.local_longitude))
                       % Deg(360) = 0

\* the time stamps of the array in calendar order
Before(a, b) == a.day < b.day \/ (a.day = b.day /\ a.sec <= b.sec)

C6_EmptyInputReturnsEmpty ==
    (Called /\ ValidSite /\ Len(time_stamp.data) = 0) =>
        (er.status = "returned" /\ er.ra = << >>)

\* C7 as stated: every Rg is >= 0, whatever the height.
C7_RgNonNegative ==
    pc = "rg" => \A i \in 1 .. Len(rg) : rg[i] >= 0

\* C7 amended: every Rg is defined and >= 0 when the height is above -37500 m
\* (where 0.75 + 2e-5 * height is positive).
C7_RgNonNegativeAboveFloor ==
    (pc = "rg" /\ z > -37500) => \A i \in 1 .. Len(rg) : ~IsNaN(rg[i]) /\ rg[i] >= 0

\* C7 witness: a positive Rg at a height below sea level
C7_Witness ==
    /\ pc = "rg" /\ z < 0 /\ z > -37500
    /\ \E i \in 1 .. Len(rg) : er.ra[i] > 0 /\ rg[i] > 0 /\ rg[i] < er.ra[i]

\* a window wholly before sunrise or wholly after sunset, on the angles as
\* they are before the clipping loop
WhollyDark(sm) ==
    \/ (FLe(sm.raw1, FNeg(sm.omegaS)) /\ FLe(sm.raw2, FNeg(sm.omegaS)))
    \/ (FGe(sm.raw1, sm.omegaS) /\ FGe(sm.raw2, sm.omegaS))

\* C8: a sample whose window lies wholly before sunrise or wholly after sunset
\* leaves the loop with equal bounds, and its Ra is exactly 0.
C8_DarkWindowIsZero ==
    (Called /\ er.status = "returned") =>
        \A i \in 1 .. N :
            WhollyDark(er.samples[i]) =>
                (er.samples[i].omega1 = er.samples[i].omega2 /\ er.ra[i] = 0)

\* C8 witness: one array holding a sunlit sample and a sample wholly after
\* sunset, whose bounds were both brought down to omegaS
C8_Witness ==
    /\ Called /\ ValidSite /\ er.status = "returned"
    /\ \E i, j \in 1 .. N :
        /\ er.ra[i] > 0
        /\ FGt(er.samples[j].raw1, er.samples[j].omegaS)
        /\ er.samples[j].omega1 = er.samples[j].omegaS
        /\ er.samples[j].omega2 = er.samples[j].omegaS
        /\ er.ra[j] = 0

\* C9 as stated: with a latitude outside [-90, 90] or a zone outside [-12, 12]
\* the call reports an error and returns no array.
C9_InvalidParameterReported ==
    (Called /\ (lat < Deg(-90) \/ lat > Deg(90) \/ zone < -12 \/ zone > 12)) =>
        (er.status # "returned" /\ er.ra = << >>)

\* C10: after the loop, every sample whose omegaS is in [0, pi] has
\* -omegaS <= omega1 <= omega2 <= omegaS with its own omegaS, and a bound that
\* was already within [-omegaS, omegaS] is unchanged.
C10_ClippedWithinOwnSunset ==
    (Called /\ er.status = "returned" /\ averaging_period > 0) =>
        \A i \in 1 .. N :
            LET sm == er.samples[i]
            IN  (~IsNaN(sm.omegaS) /\ sm.omegaS >= 0 /\ sm.omegaS <= PI) =>
                    /\ -sm.omegaS <= sm.omega1
                    /\ sm.omega1 <= sm.omega2
                    /\ sm.omega2 <= sm.omegaS
                    /\ (-sm.omegaS <= sm.raw1 /\ sm.raw1 <= sm.omegaS) => sm.omega1 = sm.raw1
                    /\ (-sm.omegaS <= sm.raw2 /\ sm.raw2 <= sm.omegaS) => sm.omega2 = sm.raw2

\* C10 witness: two samples of one array with different sunset angles, each
\* brought up to minus its own
C10_Witness ==
    /\ Called /\ ValidSite /\ er.status = "returned"
    /\ \E i, j \in 1 .. N :
        /\ ~IsNaN(er.samples[i].omegaS) /\ ~IsNaN(er.samples[j].omegaS)
        /\ er.samples[i].omegaS > er.samples[j].omegaS
        /\ er.samples[i].raw1 < -er.samples[i].omegaS
        /\ er.samples[i].omega1 = -er.samples[i].omegaS
        /\ er.samples[j].raw1 < -er.samples[j].omegaS
        /\ er.samples[j].omega1 = -er.samples[j].omegaS

\* the shortest angular distance between two longitudes, degrees
ShortestDistance(a, b) ==
    LET d == Abs(a - b) % Deg(360)
    IN  IF d <= Deg(360) - d THEN d ELSE Deg(360) - d

====
